---- MODULE Spec2Model ----
(***************************************************************************)
(* Model of the VectorToScalarVolume scripted module                       *)
(* (Modules/Scripted/VectorToScalarVolume/VectorToScalarVolume.py) and of  *)
(* the helpers of Base/Python/slicer/util.py it relies on.                 *)
(*                                                                         *)
(* Scalars are exact rationals [num, den] (den > 0, lowest terms): the     *)
(* image filters compute in floating point, and a cast to an integer       *)
(* scalar type is a C++ static_cast, i.e. a truncation toward zero.        *)
(***************************************************************************)
EXTENDS Integers, Sequences, FiniteSets, TLC

VARIABLES
    volumes,            \* node ID -> [image, ijkToRAS]: the volume nodes of the scene
    parameterNode,      \* the module's parameter node in the scene (exists or not)
    lastCall,           \* what the most recent call of the logic did
    widgetParameterNode,\* VectorToScalarVolumeWidget._parameterNode is set
    activeVolumeID,     \* selection node's active volume
    overrideCursor,     \* depth of the application's override-cursor stack
    errorDialog,        \* what slicer.util.errorDisplay showed during the last call
    testingEnabled,     \* slicer.app.testingEnabled()
    targetFile,         \* the file at targetFilePath: [exists, content]
    lastDownload,       \* what the most recent call of downloadFile did
    outputDir,          \* the folder outputDir: [exists, files]
    archiveCall,        \* the call of downloadAndExtractArchive: position and locals
    lastExtract,        \* what the most recent call of extractAlgoAndDigest did
    lastToBool,         \* what the most recent call of toBool did
    mrmlScene,          \* slicer.mrmlScene: the nodes [name, id] in scene order
    lastGetNode,        \* what the most recent call of getNode did
    defaultProperties,  \* the dictionary that is the default of exportNode's properties
    lastExport          \* what the most recent call of exportNode did

vars == <<volumes, parameterNode, lastCall, widgetParameterNode,
          activeVolumeID, overrideCursor, errorDialog, testingEnabled,
          targetFile, lastDownload, outputDir, archiveCall, lastExtract,
          lastToBool, mrmlScene, lastGetNode, defaultProperties, lastExport>>

fileVars == <<targetFile, lastDownload>>

\* results of the calls of the functions that touch nothing
pureVars == <<lastExtract, lastToBool>>

sceneVars == <<mrmlScene, lastGetNode>>

exportVars == <<defaultProperties, lastExport>>

utilVars == <<outputDir, archiveCall, pureVars, sceneVars, exportVars>>

widgetVars == <<widgetParameterNode, activeVolumeID, overrideCursor, errorDialog,
                testingEnabled>>

-----------------------------------------------------------------------------
(* Bounds of the model *)

\* largest number of scalar components of an input image
MaxComp == 4
\* largest number of voxels of an input image
MaxVoxels == 2

\* numberOfTrials of the calls (3 is the default), and files a folder holds
MaxTrials == 3
MaxFiles == 2

\* largest absolute value of the numbers given to toBool
MaxInt == 2

\* largest number of nodes of the scene
MaxNodes == 3

-----------------------------------------------------------------------------
(* Exact scalars *)

Abs(x) == IF x < 0 THEN -x ELSE x

RECURSIVE GCD(_, _)
GCD(a, b) == IF b = 0 THEN a ELSE GCD(b, a % b)

\* the rational n/d (d > 0) in lowest terms
Rat(n, d) == LET g == GCD(Abs(n), d) IN [num |-> n \div g, den |-> d \div g]

RAdd(p, q) == Rat(p.num * q.den + q.num * p.den, p.den * q.den)

RMul(p, q) == Rat(p.num * q.num, p.den * q.den)

\* static_cast<integer type>(double): the fractional part is discarded
StaticCastToInteger(q) ==
    IF q.num >= 0 THEN q.num \div q.den ELSE -((-q.num) \div q.den)

\* floor(q + 1/2): the nearest integer (halves go up)
Nearest(q) == (2 * q.num + q.den) \div (2 * q.den)

-----------------------------------------------------------------------------
(* Images and the image filters of the host library *)

\* VTK_UNSIGNED_CHAR, VTK_SHORT, VTK_DOUBLE
ScalarTypes == {"uchar", "short", "double"}

IsFloatingType(scalarType) == scalarType \in {"float", "double"}

\* a volume node without image data: GetImageData() returns None
NoImage == [scalarType |-> "none", numberOfComponents |-> 0, voxels |-> <<>>]

\* the value of a double stored into a scalar of the given type
CastScalar(scalarType, q) ==
    IF IsFloatingType(scalarType) THEN q ELSE Rat(StaticCastToInteger(q), 1)

\* vtkImageExtractComponents with SetComponents(components), components 0-based
ImageExtractComponents(image, components) ==
    [scalarType |-> image.scalarType,
     numberOfComponents |-> Len(components),
     voxels |-> [i \in 1..Len(image.voxels) |->
                   [j \in 1..Len(components) |-> image.voxels[i][components[j] + 1]]]]

\* scalar = 0.30*R + 0.59*G + 0.11*B of one voxel
LuminanceOf(voxel) ==
    RAdd(RAdd(RMul(Rat(30, 100), voxel[1]), RMul(Rat(59, 100), voxel[2])),
         RMul(Rat(11, 100), voxel[3]))

\* vtkImageLuminance: one component, of the input's scalar type
ImageLuminance(image) ==
    [scalarType |-> image.scalarType,
     numberOfComponents |-> 1,
     voxels |-> [i \in 1..Len(image.voxels) |->
                   <<CastScalar(image.scalarType, LuminanceOf(image.voxels[i]))>>]]

\* vtkImageCast to the given scalar type (no clamping)
ImageCast(image, scalarType) ==
    [scalarType |-> scalarType,
     numberOfComponents |-> image.numberOfComponents,
     voxels |-> [i \in 1..Len(image.voxels) |->
                   [j \in 1..Len(image.voxels[i]) |->
                      CastScalar(scalarType, image.voxels[i][j])]]]

RECURSIVE WeightedTerms(_, _, _, _)
WeightedTerms(inputs, weights, i, k) ==
    IF k = 0 THEN Rat(0, 1)
    ELSE RAdd(WeightedTerms(inputs, weights, i, k - 1),
              RMul(weights[k], inputs[k].voxels[i][1]))

\* vtkImageWeightedSum over one-component inputs, NormalizeByWeight off
ImageWeightedSum(inputs, weights) ==
    [scalarType |-> "double",
     numberOfComponents |-> 1,
     voxels |-> [i \in 1..Len(inputs[1].voxels) |->
                   <<WeightedTerms(inputs, weights, i, Len(inputs))>>]]

\* vtkImageMathematics, operation AddConstant with ConstantC = c
ImageAddConstant(image, c) ==
    [scalarType |-> image.scalarType,
     numberOfComponents |-> image.numberOfComponents,
     voxels |-> [i \in 1..Len(image.voxels) |->
                   [j \in 1..Len(image.voxels[i]) |-> RAdd(image.voxels[i][j], c)]]]

-----------------------------------------------------------------------------
(* Files and checksums (slicer.util) *)

\* A string is the sequence of its characters.
SHA256 == <<"S", "H", "A", "2", "5", "6">>
SHA512 == <<"S", "H", "A", "5", "1", "2">>
MD5 == <<"M", "D", "5">>

\* no file at the path
NoFile == [exists |-> FALSE, content |-> ""]

File(content) == [exists |-> TRUE, content |-> content]

\* what a file can hold; "" is the file of size 0
Contents == {"", "a", "b"}

\* Python None as a checksum, and a checksum string
NoChecksum == [isNone |-> TRUE, chars |-> <<>>]
Checksum(chars) == [isNone |-> FALSE, chars |-> chars]

\* expected_digest_length[algo]
DigestLength(algo) ==
    CASE algo = SHA256 -> 64
      [] algo = SHA512 -> 128
      [] algo = MD5 -> 32

\* the character string.split(":") cuts at
Colon == ":"

\* str.split(":"): the pieces between the colons, in order
RECURSIVE Split(_)
Split(chars) ==
    IF \A i \in 1..Len(chars) : chars[i] # Colon
    THEN <<chars>>
    ELSE LET first == CHOOSE i \in 1..Len(chars) :
                         /\ chars[i] = Colon
                         /\ \A j \in 1..(i - 1) : chars[j] # Colon
         IN  <<SubSeq(chars, 1, first - 1)>>
                 \o Split(SubSeq(chars, first + 1, Len(chars)))

\* hashlib's hexadecimal digest of a file content: as long as the algorithm
\* says, and different for different contents
HexDigest(algo, content) ==
    [i \in 1..DigestLength(algo) |->
        CASE content = "" -> "0" [] content = "a" -> "a" [] OTHER -> "b"]

\* slicer.util.computeChecksum of a file that exists
computeChecksum(algo, file) == HexDigest(algo, file.content)

\* extractAlgoAndDigest that accepts a digest of any length
extractAlgoAndDigest_AnyLength(checksum) ==
    LET Raise == [raised |-> TRUE, algo |-> <<>>, digest |-> <<>>]
        parts == Split(checksum.chars)
    IN  IF checksum.isNone THEN [raised |-> FALSE, algo |-> <<>>, digest |-> <<>>]
        ELSE IF Len(parts) # 2 THEN Raise
        ELSE IF parts[1] \notin {SHA256, SHA512, MD5} THEN Raise
        ELSE [raised |-> FALSE, algo |-> parts[1], digest |-> parts[2]]

\* slicer.util.extractAlgoAndDigest: (algo, digest), or ValueError raised
extractAlgoAndDigest(checksum) ==
    LET Raise == [raised |-> TRUE, algo |-> <<>>, digest |-> <<>>]
        parts == Split(checksum.chars)
    IN  IF checksum.isNone THEN [raised |-> FALSE, algo |-> <<>>, digest |-> <<>>]
        ELSE IF Len(parts) # 2 THEN Raise
        ELSE IF parts[1] \notin {SHA256, SHA512, MD5} THEN Raise
        ELSE IF Len(parts[2]) # DigestLength(parts[1]) THEN Raise
        ELSE [raised |-> FALSE, algo |-> parts[1], digest |-> parts[2]]

\* what urllib.request.urlretrieve does: it writes the content the server
\* sends, or raises, leaving nothing or a part of the file behind
Responses ==
    [kind : {"ok"}, content : Contents, left : {FALSE}]
        \cup [kind : {"error"}, content : Contents, left : BOOLEAN]

\* result of a call of downloadFile: the value returned, the file left, and how
\* often it fetched the url, removed the file and read it for a digest
Outcome(returned, file, fetched, removed, read) ==
    [returned |-> returned, file |-> file, fetched |-> fetched, removed |-> removed,
     read |-> read]

\* downloadFile that trusts a file it finds, without verifying its checksum
downloadFile_ExistingTrusted(file, response, checksum, reDownloadIfChecksumInvalid) ==
    LET parsed == extractAlgoAndDigest(checksum)
    IN  IF parsed.raised THEN Outcome(FALSE, file, 0, 0, 0)
        ELSE IF ~file.exists \/ file.content = ""
        THEN IF response.kind = "error"
             THEN Outcome(FALSE, IF response.left THEN File(response.content) ELSE file,
                          1, 0, 0)
             ELSE IF parsed.algo # <<>>
             THEN Outcome(computeChecksum(parsed.algo, File(response.content))
                              = parsed.digest,
                          File(response.content), 1, 0, 1)
             ELSE Outcome(TRUE, File(response.content), 1, 0, 0)
        ELSE Outcome(TRUE, file, 0, 0, 0)

\* slicer.util.downloadFile on the file at targetFilePath, with the server
\* answering as response says
RECURSIVE downloadFile(_, _, _, _)
downloadFile(file, response, checksum, reDownloadIfChecksumInvalid) ==
    LET parsed == extractAlgoAndDigest(checksum)
    IN  IF parsed.raised THEN Outcome(FALSE, file, 0, 0, 0)
        ELSE IF ~file.exists \/ file.content = ""
        THEN IF response.kind = "error"
             THEN Outcome(FALSE, IF response.left THEN File(response.content) ELSE file,
                          1, 0, 0)
             ELSE IF parsed.algo # <<>>
             THEN Outcome(computeChecksum(parsed.algo, File(response.content))
                              = parsed.digest,
                          File(response.content), 1, 0, 1)
             ELSE Outcome(TRUE, File(response.content), 1, 0, 0)
        ELSE IF parsed.algo # <<>>
        THEN IF computeChecksum(parsed.algo, file) # parsed.digest
             THEN IF reDownloadIfChecksumInvalid
                  THEN LET again == downloadFile(NoFile, response, checksum, FALSE)
                       IN  Outcome(again.returned, again.file, again.fetched,
                                   again.removed + 1, again.read + 1)
                  ELSE Outcome(FALSE, file, 0, 0, 1)
             ELSE Outcome(TRUE, file, 0, 0, 1)
        ELSE Outcome(TRUE, file, 0, 0, 0)

NoDownload ==
    [op |-> "none", checksum |-> NoChecksum, fileBefore |-> NoFile, returned |-> FALSE,
     fetched |-> 0, removed |-> 0, read |-> 0]

NoFiles ==
    /\ targetFile = NoFile
    /\ lastDownload = NoDownload

\* the folder outputDir does not exist
NoDir == [exists |-> FALSE, files |-> 0]

\* the folder outputDir holding a number of files
Dir(files) == [exists |-> TRUE, files |-> files]

\* archive file name extensions, and str.lower() of them
Extensions == {".zip", ".ZIP", ".tar"}
Lower(extension) == IF extension = ".ZIP" THEN ".zip" ELSE extension

\* expectedNumberOfExtractedFiles: None, or a number
NoExpectation == [given |-> FALSE, files |-> 0]
Expect(files) == [given |-> TRUE, files |-> files]

\* len(getFilesInDirectory(outputDir, False)): os.walk of a folder that does
\* not exist yields nothing
numOfFilesInOutputDir(dir) == IF dir.exists THEN dir.files ELSE 0

\* slicer.util.extractArchive; unzip says what applicationLogic().Unzip does:
\* whether it succeeds, how many files it adds and whether it makes the folder
extractArchive(file, dir, extension, expected, unzip) ==
    IF ~file.exists THEN [returned |-> FALSE, dir |-> dir]
    ELSE IF Lower(extension) # ".zip" THEN [returned |-> FALSE, dir |-> dir]
    ELSE IF expected.given /\ numOfFilesInOutputDir(dir) = expected.files
    THEN [returned |-> TRUE, dir |-> dir]
    ELSE LET after == IF dir.exists \/ unzip.made
                      THEN Dir(IF dir.files + unzip.added > MaxFiles THEN MaxFiles
                               ELSE dir.files + unzip.added)
                      ELSE dir
             extractSuccessful == unzip.ok /\ after.exists
         IN  [returned |-> ~(~extractSuccessful
                               \/ (expected.given
                                     /\ numOfFilesInOutputDir(after) # expected.files)),
              dir |-> after]

\* _cleanup of downloadAndExtractArchive: os.remove(archiveFilePath),
\* shutil.rmtree(outputDir), os.mkdir(outputDir); os.remove and shutil.rmtree
\* raise FileNotFoundError when there is nothing to remove
cleanup(file, dir) ==
    IF ~file.exists THEN [raised |-> TRUE, file |-> file, dir |-> dir]
    ELSE IF ~dir.exists THEN [raised |-> TRUE, file |-> NoFile, dir |-> dir]
    ELSE [raised |-> FALSE, file |-> NoFile, dir |-> Dir(0)]

NoArchiveCall ==
    [pc |-> "idle", numberOfTrials |-> 0, maxNumberOfTrials |-> 0,
     checksum |-> NoChecksum, extension |-> ".zip", expected |-> NoExpectation,
     outcome |-> "none", attempts |-> 0]

NoExtract ==
    [op |-> "none", checksum |-> NoChecksum, raised |-> FALSE, algo |-> <<>>,
     digest |-> <<>>]

\* Python values: an int, a bool, a float (a number of halves, nan or an
\* infinity), a str, None, an object() and a list of some length
PyValue(type, n, kind, chars) == [type |-> type, n |-> n, kind |-> kind, chars |-> chars]
PyInt(n) == PyValue("int", n, "finite", <<>>)
PyBool(b) == PyValue("bool", IF b THEN 1 ELSE 0, "finite", <<>>)
PyFloat(halves) == PyValue("float", halves, "finite", <<>>)
PyNan == PyValue("float", 0, "nan", <<>>)
PyInf == PyValue("float", 1, "inf", <<>>)
PyMinusInf == PyValue("float", -1, "inf", <<>>)
PyStr(chars) == PyValue("str", 0, "finite", chars)
PyNone == PyValue("NoneType", 0, "finite", <<>>)
PyObject == PyValue("object", 0, "finite", <<>>)
PyList(length) == PyValue("list", length, "finite", <<>>)

Digits == <<"0", "1", "2", "3", "4", "5", "6", "7", "8", "9">>
IsDigit(char) == \E i \in 1..10 : Digits[i] = char
DigitValue(char) == (CHOOSE i \in 1..10 : Digits[i] = char) - 1

\* str.strip() of whitespace
RECURSIVE Strip(_)
Strip(chars) ==
    IF chars = <<>> THEN chars
    ELSE IF Head(chars) = " " THEN Strip(Tail(chars))
    ELSE IF chars[Len(chars)] = " " THEN Strip(SubSeq(chars, 1, Len(chars) - 1))
    ELSE chars

\* the number a string of digits writes
RECURSIVE DigitsValue(_)
DigitsValue(chars) ==
    IF chars = <<>> THEN 0
    ELSE 10 * DigitsValue(SubSeq(chars, 1, Len(chars) - 1)) + DigitValue(chars[Len(chars)])

\* int(value): the integer, or the exception raised
IntOfStr(chars) ==
    LET stripped == Strip(chars)
        signed == stripped # <<>> /\ Head(stripped) \in {"+", "-"}
        digits == IF signed THEN Tail(stripped) ELSE stripped
    IN  IF digits # <<>> /\ \A i \in 1..Len(digits) : IsDigit(digits[i])
        THEN [raised |-> "none",
              n |-> IF signed /\ Head(stripped) = "-" THEN 0 - DigitsValue(digits)
                    ELSE DigitsValue(digits)]
        ELSE [raised |-> "ValueError", n |-> 0]

int(value) ==
    CASE value.type \in {"int", "bool"} -> [raised |-> "none", n |-> value.n]
      [] value.type = "float" ->
            IF value.kind = "nan" THEN [raised |-> "ValueError", n |-> 0]
            ELSE IF value.kind = "inf" THEN [raised |-> "OverflowError", n |-> 0]
            ELSE [raised |-> "none",
                  n |-> IF value.n >= 0 THEN value.n \div 2 ELSE 0 - ((0 - value.n) \div 2)]
      [] value.type = "str" -> IntOfStr(value.chars)
      [] OTHER -> [raised |-> "TypeError", n |-> 0]

\* bool(value)
bool(value) ==
    CASE value.type \in {"int", "bool", "list"} -> value.n # 0
      [] value.type = "float" -> value.kind # "finite" \/ value.n # 0
      [] value.type = "str" -> value.chars # <<>>
      [] value.type = "NoneType" -> FALSE
      [] OTHER -> TRUE

\* str.lower()
LowerChar(char) ==
    CASE char = "T" -> "t" [] char = "R" -> "r" [] char = "U" -> "u" [] char = "E" -> "e"
      [] char = "F" -> "f" [] char = "A" -> "a" [] char = "L" -> "l" [] char = "S" -> "s"
      [] char = "H" -> "h" [] char = "O" -> "o" [] OTHER -> char
lower(chars) == [i \in 1..Len(chars) |-> LowerChar(chars[i])]

\* slicer.util.toBool: the boolean returned, or the exception that leaves it
toBool(value) ==
    LET i == int(value)
    IN  IF i.raised = "none" THEN [raised |-> "none", result |-> i.n # 0]
        ELSE IF i.raised \in {"ValueError", "TypeError"}
        THEN [raised |-> "none",
              result |-> IF value.type = "str"
                         THEN lower(value.chars) \in {<<"t", "r", "u", "e">>}
                         ELSE bool(value)]
        ELSE [raised |-> i.raised, result |-> FALSE]

NoToBool == [op |-> "none", value |-> PyNone, raised |-> "none", result |-> FALSE]

NoPureCalls ==
    /\ lastExtract = NoExtract
    /\ lastToBool = NoToBool

\* fnmatch.fnmatchcase(name, pattern) for patterns of characters, ? and *
RECURSIVE fnmatchcase(_, _)
fnmatchcase(name, pattern) ==
    IF pattern = <<>> THEN name = <<>>
    ELSE IF Head(pattern) = "*"
    THEN \/ fnmatchcase(name, Tail(pattern))
         \/ name # <<>> /\ fnmatchcase(Tail(name), pattern)
    ELSE /\ name # <<>>
         /\ Head(pattern) = "?" \/ Head(pattern) = Head(name)
         /\ fnmatchcase(Tail(name), Tail(pattern))

\* nodes[node.GetName()] = node on an OrderedDict kept as a sequence of
\* [name, node]: a name that is there keeps its place and gets the new node
SetItem(nodes, name, node) ==
    IF \E i \in 1..Len(nodes) : nodes[i].name = name
    THEN [i \in 1..Len(nodes) |->
             IF nodes[i].name = name THEN [name |-> name, node |-> node] ELSE nodes[i]]
    ELSE Append(nodes, [name |-> name, node |-> node])

\* slicer.util.getNodes(pattern, scene) with useLists=False, after the nodes of
\* the scene up to the count-th
RECURSIVE getNodesUpTo(_, _, _)
getNodesUpTo(pattern, scene, count) ==
    IF count = 0 THEN <<>>
    ELSE LET nodes == getNodesUpTo(pattern, scene, count - 1)
             node == scene[count]
         IN  IF fnmatchcase(node.name, pattern) \/ fnmatchcase(node.id, pattern)
             THEN SetItem(nodes, node.name, node)
             ELSE nodes

getNodes(pattern, scene) == getNodesUpTo(pattern, scene, Len(scene))

\* no node
NoNode == [name |-> <<>>, id |-> <<>>]

\* slicer.util.getNode(pattern, index, scene) for an index that is not negative
getNode(pattern, index, scene) ==
    LET nodes == getNodes(pattern, scene)
    IN  IF nodes = <<>> THEN [raised |-> "MRMLNodeNotFoundException", node |-> NoNode]
        ELSE IF index >= Len(nodes) THEN [raised |-> "IndexError", node |-> NoNode]
        ELSE [raised |-> "none", node |-> nodes[index + 1].node]

NoGetNode ==
    [op |-> "none", pattern |-> <<>>, index |-> 0, raised |-> "none", node |-> NoNode]

\* properties without a 'fileFormat' entry
NoFileFormat == "None"

\* app.coreIOManager().fileWriterExtensions(node): the formats of the writers
\* of the node, and the extension each format string names
fileWriterExtensions == <<"NRRD (.nrrd)", "NRRD (.nhdr)", "NIfTI (.nii)">>
GetFileExtensionFromFormatString(fileFormat) ==
    CASE fileFormat = "NRRD (.nrrd)" -> ".nrrd"
      [] fileFormat = "NRRD (.nhdr)" -> ".nhdr"
      [] fileFormat = "NIfTI (.nii)" -> ".nii"

\* slicer.util.exportNode for a file name whose known extension is
\* currentExtension and a dictionary properties whose 'fileFormat' entry is
\* given (or missing); success is what exportNodes answers
exportNode(currentExtension, properties, success) ==
    IF properties = NoFileFormat
    THEN LET found == {i \in 1..Len(fileWriterExtensions) :
                          GetFileExtensionFromFormatString(fileWriterExtensions[i])
                              = currentExtension}
         IN  IF found = {}
             THEN [raised |-> "ValueError", fileFormat |-> NoFileFormat,
                   properties |-> properties, returned |-> FALSE]
             ELSE LET foundFileFormat ==
                          fileWriterExtensions[CHOOSE i \in found : \A j \in found : i <= j]
                  IN  [raised |-> "none", fileFormat |-> foundFileFormat,
                       properties |-> foundFileFormat, returned |-> success]
    ELSE [raised |-> "none", fileFormat |-> properties, properties |-> properties,
          returned |-> success]

NoExport ==
    [op |-> "none", extension |-> "", properties |-> "default", given |-> NoFileFormat,
     world |-> FALSE, raised |-> "none", fileFormat |-> NoFileFormat, returned |-> FALSE]

NoUtilCalls ==
    /\ outputDir = NoDir
    /\ archiveCall = NoArchiveCall
    /\ NoPureCalls
    /\ mrmlScene = <<>>
    /\ lastGetNode = NoGetNode
    /\ defaultProperties = NoFileFormat
    /\ lastExport = NoExport

-----------------------------------------------------------------------------
(* The module *)

ConversionMethods == {"LUMINANCE", "AVERAGE", "SINGLE_COMPONENT"}

\* some object that is no member of the enumeration
NotAMethod == "MAGNITUDE"

InputNodeID == "vtkMRMLVectorVolumeNode1"
OutputNodeID == "vtkMRMLScalarVolumeNode1"
None == "None"

NodeIDs == {InputNodeID, OutputNodeID}

\* validation messages
NoMsg == [text |-> "None", componentSelected |-> 0, componentsTotal |-> 0]
Msg(text) == [text |-> text, componentSelected |-> 0, componentsTotal |-> 0]
MsgNoInput == Msg("no input volume node defined")
MsgNoOutput == Msg("no output volume node defined")
MsgSameVolume ==
    Msg("input and output volume is the same. Create a new volume for output to avoid this error.")
MsgUnrecognized == Msg("conversionMethod unrecognized.")
MsgInvalidComponent(componentToExtract, numberOfComponents) ==
    [text |-> "component to extract is invalid. Image has only components.",
     componentSelected |-> componentToExtract,
     componentsTotal |-> numberOfComponents]
MsgTooFewComponents(numberOfComponents) ==
    [text |-> "input has only components but requires at least 3 components for luminance conversion.",
     componentSelected |-> 0,
     componentsTotal |-> numberOfComponents]
MsgNoneType == Msg("'NoneType' object has no attribute 'GetNumberOfScalarComponents'")
MsgUndefinedName == Msg("name '_t' is not defined")

\* VectorToScalarVolumeLogic.isValidInputOutputData; vols is the scene's volumes
isValidInputOutputData(vols, inputVolumeNode, outputVolumeNode, conversionMethod, componentToExtract) ==
    LET Invalid(msg) == [raised |-> "none", valid |-> FALSE, msg |-> msg]
        numberOfComponents == vols[inputVolumeNode].image.numberOfComponents
    IN  IF inputVolumeNode = None THEN Invalid(MsgNoInput)
        ELSE IF outputVolumeNode = None THEN Invalid(MsgNoOutput)
        ELSE IF inputVolumeNode = outputVolumeNode THEN Invalid(MsgSameVolume)
        ELSE IF conversionMethod \notin ConversionMethods THEN Invalid(MsgUnrecognized)
        ELSE IF vols[inputVolumeNode].image = NoImage
             THEN [raised |-> "AttributeError", valid |-> FALSE, msg |-> MsgNoneType]
        ELSE IF conversionMethod = "SINGLE_COMPONENT"
                /\ ~(0 <= componentToExtract /\ componentToExtract < numberOfComponents)
             THEN Invalid(MsgInvalidComponent(componentToExtract, numberOfComponents))
        ELSE IF conversionMethod = "LUMINANCE" /\ numberOfComponents < 3
             THEN Invalid(MsgTooFewComponents(numberOfComponents))
        ELSE [raised |-> "none", valid |-> TRUE, msg |-> NoMsg]

\* runConversionMethodSingleComponent without SetIJKToRASMatrix on the output
runConversionMethodSingleComponent_GeometryKept(inputVolume, outputVolume, componentToExtract) ==
    [image |-> ImageExtractComponents(inputVolume.image, <<componentToExtract>>),
     ijkToRAS |-> outputVolume.ijkToRAS]

\* runConversionMethodSingleComponent extracting the first component always
runConversionMethodSingleComponent_First(inputVolume, outputVolume, componentToExtract) ==
    [image |-> ImageExtractComponents(inputVolume.image, <<0>>),
     ijkToRAS |-> inputVolume.ijkToRAS]

\* runConversionMethodSingleComponent: the output node after the call
runConversionMethodSingleComponent(inputVolume, outputVolume, componentToExtract) ==
    [image |-> ImageExtractComponents(inputVolume.image, <<componentToExtract>>),
     ijkToRAS |-> inputVolume.ijkToRAS]

\* runConversionMethodLuminance with SetComponents(0, 1, 1)
runConversionMethodLuminance_WrongComponents(inputVolume, outputVolume) ==
    [image |-> ImageLuminance(ImageExtractComponents(inputVolume.image, <<0, 1, 1>>)),
     ijkToRAS |-> inputVolume.ijkToRAS]

\* runConversionMethodLuminance: the output node after the call
runConversionMethodLuminance(inputVolume, outputVolume) ==
    [image |-> ImageLuminance(ImageExtractComponents(inputVolume.image, <<0, 1, 2>>)),
     ijkToRAS |-> inputVolume.ijkToRAS]

\* runConversionMethodAverage without SetIJKToRASMatrix on the output
runConversionMethodAverage_GeometryKept(inputVolume, outputVolume) ==
    LET numberOfComponents == inputVolume.image.numberOfComponents
        weights == [comp \in 1..numberOfComponents |-> Rat(1, numberOfComponents)]
        compToDouble ==
            [comp \in 1..numberOfComponents |->
               ImageCast(ImageExtractComponents(inputVolume.image, <<comp - 1>>), "double")]
        weightedSum == ImageWeightedSum(compToDouble, weights)
        scalarType == inputVolume.image.scalarType
        castBack ==
            IF scalarType = "float" \/ scalarType = "double"
            THEN ImageCast(weightedSum, scalarType)
            ELSE ImageCast(ImageAddConstant(weightedSum, Rat(1, 2)), scalarType)
    IN  [image |-> castBack, ijkToRAS |-> outputVolume.ijkToRAS]

\* runConversionMethodAverage: the output node after the call
runConversionMethodAverage(inputVolume, outputVolume) ==
    LET numberOfComponents == inputVolume.image.numberOfComponents
        evenWeight == Rat(1, numberOfComponents)
        weights == [comp \in 1..numberOfComponents |-> evenWeight]
        compToDouble ==
            [comp \in 1..numberOfComponents |->
               ImageCast(ImageExtractComponents(inputVolume.image, <<comp - 1>>), "double")]
        weightedSum == ImageWeightedSum(compToDouble, weights)
        scalarType == inputVolume.image.scalarType
        castBack ==
            IF scalarType = "float" \/ scalarType = "double"
            THEN ImageCast(weightedSum, scalarType)
            ELSE ImageCast(ImageAddConstant(weightedSum, Rat(1, 2)), scalarType)
    IN  [image |-> castBack, ijkToRAS |-> inputVolume.ijkToRAS]

\* a parameter node that does not exist (Python None)
NoParameterNode ==
    [exists |-> FALSE, InputVolume |-> None, OutputVolume |-> None,
     ConversionMethod |-> "LUMINANCE", ComponentToExtract |-> 0]

\* the pipelines a run executes, in order, and the volumes it leaves
Dispatch(vols, inputVolumeNode, outputVolumeNode, conversionMethod, componentToExtract) ==
    LET afterSingle ==
            IF conversionMethod = "SINGLE_COMPONENT"
            THEN [ran |-> <<"SINGLE_COMPONENT">>,
                  vols |-> [vols EXCEPT ![outputVolumeNode] =
                              runConversionMethodSingleComponent(
                                  vols[inputVolumeNode], vols[outputVolumeNode],
                                  componentToExtract)]]
            ELSE [ran |-> <<>>, vols |-> vols]
        afterLuminance ==
            IF conversionMethod = "LUMINANCE"
            THEN [ran |-> Append(afterSingle.ran, "LUMINANCE"),
                  vols |-> [afterSingle.vols EXCEPT ![outputVolumeNode] =
                              runConversionMethodLuminance(
                                  afterSingle.vols[inputVolumeNode],
                                  afterSingle.vols[outputVolumeNode])]]
            ELSE afterSingle
    IN  IF conversionMethod = "AVERAGE"
        THEN [ran |-> Append(afterLuminance.ran, "AVERAGE"),
              vols |-> [afterLuminance.vols EXCEPT ![outputVolumeNode] =
                          runConversionMethodAverage(
                              afterLuminance.vols[inputVolumeNode],
                              afterLuminance.vols[outputVolumeNode])]]
        ELSE afterLuminance

\* VectorToScalarVolumeLogic.run: how the call ends and the volumes it leaves
run(vols, p) ==
    IF ~p.exists
    THEN \* _t is no name of the module: evaluating it raises NameError
         [outcome |-> "NameError", msg |-> MsgUndefinedName, ran |-> <<>>, vols |-> vols]
    ELSE LET v == isValidInputOutputData(vols, p.InputVolume, p.OutputVolume,
                                         p.ConversionMethod, p.ComponentToExtract)
         IN  IF v.raised # "none"
             THEN [outcome |-> v.raised, msg |-> v.msg, ran |-> <<>>, vols |-> vols]
             ELSE IF ~v.valid
             THEN [outcome |-> "ValueError", msg |-> v.msg, ran |-> <<>>, vols |-> vols]
             ELSE LET d == Dispatch(vols, p.InputVolume, p.OutputVolume,
                                    p.ConversionMethod, p.ComponentToExtract)
                  IN  [outcome |-> "returned", msg |-> NoMsg, ran |-> d.ran,
                       vols |-> d.vols]

-----------------------------------------------------------------------------
(* The scene *)

\* voxel values the input volumes are filled with; component i of colour c is
\* c[((i - 1) % Len(c)) + 1]
Colours == {<<30, 50, 100, 255>>, <<-3, -3, -4, 1>>}

ComponentOf(colour, i) == colour[((i - 1) % Len(colour)) + 1]

\* the values a scalar type holds
Representable(scalarType, x) ==
    CASE scalarType = "uchar" -> 0 <= x /\ x <= 255
      [] scalarType = "short" -> -32768 <= x /\ x <= 32767
      [] OTHER -> TRUE

\* slicer.util.updateVolumeFromArray: the image holding the given array
ImageFromArray(scalarType, numberOfComponents, colours) ==
    [scalarType |-> scalarType,
     numberOfComponents |-> numberOfComponents,
     voxels |-> [i \in 1..Len(colours) |->
                   [j \in 1..numberOfComponents |-> Rat(ComponentOf(colours[i], j), 1)]]]

VoxelArrays == UNION {[1..k -> Colours] : k \in 1..MaxVoxels}

InputImages ==
    {ImageFromArray(t, n, a) : <<t, n, a>> \in
        {x \in ScalarTypes \X (1..MaxComp) \X VoxelArrays :
            \A i \in 1..Len(x[3]) : \A j \in 1..x[2] :
                Representable(x[1], ComponentOf(x[3][i], j))}}

\* the array of the module's test: every voxel is (30, 50, 100), unsigned char
TestImage == ImageFromArray("uchar", 3, <<<<30, 50, 100, 255>>, <<30, 50, 100, 255>>>>)

\* a volume node as AddNewNodeByClass leaves it
NewVolumeNode == [image |-> NoImage, ijkToRAS |-> "identity"]

\* lastCall.outputBefore is the output volume node as the call found it
NoCall ==
    [op |-> "none", outcome |-> "none", valid |-> FALSE, msg |-> NoMsg, ran |-> <<>>,
     outputBefore |-> NewVolumeNode]

\* the volume node the parameter node names as output, before a call
OutputBefore(vols, p) ==
    IF p.exists /\ p.OutputVolume # None THEN vols[p.OutputVolume] ELSE NewVolumeNode

NoDialog == [shown |-> FALSE, message |-> "", exception |-> NoMsg]

InputVolumeChoices == {None, InputNodeID}
OutputVolumeChoices == {None, InputNodeID, OutputNodeID}
MethodChoices == ConversionMethods \cup {NotAMethod}
ComponentChoices == -1..MaxComp

WidgetIdle ==
    /\ widgetParameterNode = FALSE
    /\ activeVolumeID = None
    /\ overrideCursor = 0
    /\ errorDialog = NoDialog

\* the scene of a script: a vector volume with some image, an empty scalar volume
Init ==
    /\ \E image \in InputImages \cup {NoImage} :
          volumes = [n \in NodeIDs |->
                       IF n = InputNodeID
                       THEN [image |-> image, ijkToRAS |-> "oblique"]
                       ELSE NewVolumeNode]
    /\ parameterNode = NoParameterNode
    /\ lastCall = NoCall
    /\ WidgetIdle
    /\ testingEnabled = FALSE
    /\ NoFiles
    /\ NoUtilCalls

\* ScriptedLoadableModuleLogic.getParameterNode: the module's parameter node,
\* created with the wrapper's default values when the scene has none
getParameterNode(p) ==
    IF p.exists THEN p ELSE [NoParameterNode EXCEPT !.exists = TRUE]

GetParameterNode ==
    /\ ~parameterNode.exists
    /\ parameterNode' = getParameterNode(parameterNode)
    /\ lastCall' = NoCall
    /\ UNCHANGED <<volumes, widgetVars, fileVars, utilVars>>

\* parameterNode.InputVolume = node
SetInputVolume ==
    /\ parameterNode.exists
    /\ \E n \in InputVolumeChoices :
          parameterNode' = [parameterNode EXCEPT !.InputVolume = n]
    /\ lastCall' = NoCall
    /\ UNCHANGED <<volumes, widgetVars, fileVars, utilVars>>

\* parameterNode.OutputVolume = node
SetOutputVolume ==
    /\ parameterNode.exists
    /\ \E n \in OutputVolumeChoices :
          parameterNode' = [parameterNode EXCEPT !.OutputVolume = n]
    /\ lastCall' = NoCall
    /\ UNCHANGED <<volumes, widgetVars, fileVars, utilVars>>

\* parameterNode.ConversionMethod = method
SetConversionMethod ==
    /\ parameterNode.exists
    /\ \E m \in MethodChoices :
          parameterNode' = [parameterNode EXCEPT !.ConversionMethod = m]
    /\ lastCall' = NoCall
    /\ UNCHANGED <<volumes, widgetVars, fileVars, utilVars>>

\* parameterNode.ComponentToExtract = k
SetComponentToExtract ==
    /\ parameterNode.exists
    /\ \E k \in ComponentChoices :
          parameterNode' = [parameterNode EXCEPT !.ComponentToExtract = k]
    /\ lastCall' = NoCall
    /\ UNCHANGED <<volumes, widgetVars, fileVars, utilVars>>

\* VectorToScalarVolumeLogic.isValidInputOutputData called on the node's values
Validate ==
    /\ parameterNode.exists
    /\ LET v == isValidInputOutputData(volumes, parameterNode.InputVolume,
                                       parameterNode.OutputVolume,
                                       parameterNode.ConversionMethod,
                                       parameterNode.ComponentToExtract)
       IN  lastCall' = [op |-> "isValidInputOutputData",
                        outcome |-> IF v.raised = "none" THEN "returned" ELSE v.raised,
                        valid |-> v.valid, msg |-> v.msg, ran |-> <<>>,
                        outputBefore |-> OutputBefore(volumes, parameterNode)]
    /\ UNCHANGED <<volumes, parameterNode, widgetVars, fileVars, utilVars>>

\* logic.run(parameterNode)
Run ==
    /\ parameterNode.exists
    /\ LET r == run(volumes, parameterNode)
       IN  /\ volumes' = r.vols
           /\ lastCall' = [op |-> "run", outcome |-> r.outcome, valid |-> FALSE,
                           msg |-> r.msg, ran |-> r.ran,
                           outputBefore |-> OutputBefore(volumes, parameterNode)]
    /\ UNCHANGED <<parameterNode, widgetVars, fileVars, utilVars>>

\* logic.run(None)
RunNone ==
    /\ LET r == run(volumes, NoParameterNode)
       IN  /\ volumes' = r.vols
           /\ lastCall' = [op |-> "run(None)", outcome |-> r.outcome, valid |-> FALSE,
                           msg |-> r.msg, ran |-> r.ran,
                           outputBefore |-> NewVolumeNode]
    /\ UNCHANGED <<parameterNode, widgetVars, fileVars, utilVars>>

Next ==
    \/ GetParameterNode
    \/ SetInputVolume
    \/ SetOutputVolume
    \/ SetConversionMethod
    \/ SetComponentToExtract
    \/ Validate
    \/ Run
    \/ RunNone

Spec == Init /\ [][Next]_vars

-----------------------------------------------------------------------------
(* The module widget and runWithVariables *)

\* slicer.util.tryWithErrorDisplay without restoreOverrideCursor in the handler
tryWithErrorDisplay_CursorLeft(message, show, waitCursor, cursor, testing, body) ==
    LET entered == IF waitCursor THEN cursor + 1 ELSE cursor
    IN  IF body.outcome = "returned"
        THEN [cursor |-> IF waitCursor THEN entered - 1 ELSE entered,
              dialog |-> NoDialog, outcome |-> "returned", msg |-> NoMsg]
        ELSE [cursor |-> entered,
              dialog |-> IF show /\ ~testing
                         THEN [shown |-> TRUE,
                               message |-> IF message # None THEN message ELSE "",
                               exception |-> body.msg]
                         ELSE NoDialog,
              outcome |-> body.outcome, msg |-> body.msg]

\* slicer.util.tryWithErrorDisplay around a block that ended as body says:
\* the cursor stack, the dialog shown and how the with statement ends
tryWithErrorDisplay(message, show, waitCursor, cursor, testing, body) ==
    LET entered == IF waitCursor THEN cursor + 1 ELSE cursor
    IN  IF body.outcome = "returned"
        THEN [cursor |-> IF waitCursor THEN entered - 1 ELSE entered,
              dialog |-> NoDialog, outcome |-> "returned", msg |-> NoMsg]
        ELSE [cursor |-> IF waitCursor THEN entered - 1 ELSE entered,
              dialog |-> IF show /\ ~testing
                         THEN [shown |-> TRUE,
                               message |-> IF message # None THEN message ELSE "",
                               exception |-> body.msg]
                         ELSE NoDialog,
              outcome |-> body.outcome, msg |-> body.msg]

\* VectorToScalarVolumeWidget.initializeParameterNode, called by setup and enter
initializeParameterNode(p) ==
    LET node == getParameterNode(p)
    IN  IF node.InputVolume = None
        THEN [node EXCEPT !.InputVolume = InputNodeID]
        ELSE node

WidgetEnter ==
    /\ parameterNode' = initializeParameterNode(parameterNode)
    /\ widgetParameterNode' = TRUE
    /\ lastCall' = NoCall
    /\ UNCHANGED <<volumes, activeVolumeID, overrideCursor, errorDialog, testingEnabled,
                   fileVars, utilVars>>

\* VectorToScalarVolumeWidget.onApplyButton
OnApplyButton ==
    /\ widgetParameterNode
    /\ LET r == run(volumes, parameterNode)
           w == tryWithErrorDisplay("Failed to compute results.", TRUE, TRUE,
                                    overrideCursor, testingEnabled, r)
       IN  /\ volumes' = r.vols
           /\ activeVolumeID' = IF r.outcome = "returned"
                                THEN parameterNode.OutputVolume
                                ELSE activeVolumeID
           /\ overrideCursor' = w.cursor
           /\ errorDialog' = w.dialog
           /\ lastCall' = [op |-> "onApplyButton", outcome |-> w.outcome,
                           valid |-> FALSE, msg |-> w.msg, ran |-> r.ran,
                           outputBefore |-> OutputBefore(volumes, parameterNode)]
    /\ UNCHANGED <<parameterNode, widgetParameterNode, testingEnabled, fileVars, utilVars>>

\* VectorToScalarVolumeLogic.runWithVariables: the parameter node it runs with
runWithVariablesNode(p, inputVolumeNode, outputVolumeNode, conversionMethod, componentToExtract) ==
    [getParameterNode(p) EXCEPT !.InputVolume = inputVolumeNode,
                                !.OutputVolume = outputVolumeNode,
                                !.ConversionMethod = conversionMethod,
                                !.ComponentToExtract = componentToExtract]

\* logic.runWithVariables(inputVolumeNode, outputVolumeNode, conversionMethod
\* [, componentToExtract]): componentToExtract is 0 when not given
RunWithVariablesCall(inputVolumeNode, outputVolumeNode, conversionMethod, given, componentGiven) ==
    LET componentToExtract == IF given THEN componentGiven ELSE 0
        node == runWithVariablesNode(parameterNode, inputVolumeNode, outputVolumeNode,
                                     conversionMethod, componentToExtract)
        r == run(volumes, node)
    IN  /\ parameterNode' = node
        /\ volumes' = r.vols
        /\ lastCall' = [op |-> "runWithVariables", outcome |-> r.outcome,
                        valid |-> FALSE, msg |-> r.msg, ran |-> r.ran,
                        outputBefore |-> OutputBefore(volumes, node)]
        /\ UNCHANGED <<widgetVars, fileVars, utilVars>>

\* the calls a script makes: with a component index, or without one
ComponentArguments ==
    {<<TRUE, k>> : k \in ComponentChoices} \cup {<<FALSE, 0>>}

RunWithVariables ==
    \E i \in InputVolumeChoices, o \in OutputVolumeChoices, m \in MethodChoices,
       c \in ComponentArguments :
        RunWithVariablesCall(i, o, m, c[1], c[2])

\* the input images of the widget's scene: none, the test's, and one of MaxComp
\* signed components per colour
WidgetImages ==
    {NoImage, TestImage} \cup {ImageFromArray("short", MaxComp, <<c>>) : c \in Colours}

InitWidget ==
    /\ \E image \in WidgetImages :
          volumes = [n \in NodeIDs |->
                       IF n = InputNodeID
                       THEN [image |-> image, ijkToRAS |-> "oblique"]
                       ELSE NewVolumeNode]
    /\ parameterNode = NoParameterNode
    /\ lastCall = NoCall
    /\ WidgetIdle
    /\ testingEnabled \in BOOLEAN
    /\ NoFiles
    /\ NoUtilCalls

NextWidget ==
    \/ WidgetEnter
    \/ SetInputVolume
    \/ SetOutputVolume
    \/ SetConversionMethod
    \/ SetComponentToExtract
    \/ OnApplyButton

\* the user works with the module widget
SpecWidget == InitWidget /\ [][NextWidget]_vars

NextScript ==
    \/ WidgetEnter
    \/ RunWithVariables

\* a script calls runWithVariables, before or after the widget was opened
SpecScript == InitWidget /\ [][NextScript]_vars

-----------------------------------------------------------------------------
(* Properties of the conversion logic *)

RLeq(p, q) == p.num * q.den <= q.num * p.den

\* vtkImageData.GetScalarRange of a one-component image: <<lowest, highest>>
ScalarRange(image) ==
    LET values == {image.voxels[i][1] : i \in 1..Len(image.voxels)}
    IN  <<CHOOSE v \in values : \A w \in values : RLeq(v, w),
          CHOOSE v \in values : \A w \in values : RLeq(w, v)>>

\* number of scalar components of the node, none without image data
ComponentsOf(vols, node) == vols[node].image.numberOfComponents

HasImage(vols, node) == node # None /\ vols[node].image # NoImage

\* the parameter node holds one of the six invalid combinations; an input
\* without image data has no components
InvalidParameters(vols, p) ==
    \/ p.InputVolume = None
    \/ p.OutputVolume = None
    \/ p.InputVolume = p.OutputVolume
    \/ p.ConversionMethod \notin ConversionMethods
    \/ /\ p.ConversionMethod = "SINGLE_COMPONENT"
       /\ p.InputVolume # None
       /\ p.ComponentToExtract \notin 0..(ComponentsOf(vols, p.InputVolume) - 1)
    \/ /\ p.ConversionMethod = "LUMINANCE"
       /\ p.InputVolume # None
       /\ ComponentsOf(vols, p.InputVolume) < 3

\* what C1 promises of the last call
RaisedValidationError ==
    /\ lastCall.outcome = "ValueError"
    /\ lastCall.msg # NoMsg
    /\ lastCall.ran = <<>>
    /\ parameterNode.OutputVolume # None
          => volumes[parameterNode.OutputVolume] = lastCall.outputBefore

\* C1: run on a parameter node holding an invalid combination raises ValueError
\* with the validation message, runs no pipeline and leaves the output volume's
\* image data and geometry as they were
C1_InvalidRunRaisesValueError ==
    (lastCall.op = "run" /\ InvalidParameters(volumes, parameterNode))
        => RaisedValidationError

\* C1 for the inputs that have image data, or that fail an earlier check: the
\* part of C1 the code keeps
C1_HoldsWithImageData ==
    (/\ lastCall.op = "run"
     /\ InvalidParameters(volumes, parameterNode)
     /\ \/ HasImage(volumes, parameterNode.InputVolume)
        \/ parameterNode.InputVolume = None
        \/ parameterNode.OutputVolume = None
        \/ parameterNode.InputVolume = parameterNode.OutputVolume
        \/ parameterNode.ConversionMethod \notin ConversionMethods)
        => RaisedValidationError

\* every condition the validator asks for holds
AllConditionsHold(vols, p) ==
    /\ p.InputVolume # None
    /\ p.OutputVolume # None
    /\ p.InputVolume # p.OutputVolume
    /\ p.ConversionMethod \in ConversionMethods
    /\ p.ConversionMethod = "SINGLE_COMPONENT"
          => /\ 0 <= p.ComponentToExtract
             /\ p.ComponentToExtract <= ComponentsOf(vols, p.InputVolume) - 1
    /\ p.ConversionMethod = "LUMINANCE" => ComponentsOf(vols, p.InputVolume) >= 3

\* C2: isValidInputOutputData returns (True, None) exactly when every condition
\* holds, and (False, message) with a non-empty message in every other case
C2_ValidatorDecides ==
    lastCall.op = "isValidInputOutputData"
        => /\ lastCall.outcome = "returned"
           /\ IF AllConditionsHold(volumes, parameterNode)
              THEN lastCall.valid /\ lastCall.msg = NoMsg
              ELSE ~lastCall.valid /\ lastCall.msg # NoMsg

\* the last call was a run that returned, with the given method
SucceededRun(method) ==
    /\ lastCall.op = "run"
    /\ lastCall.outcome = "returned"
    /\ parameterNode.ConversionMethod = method

InImage == volumes[parameterNode.InputVolume].image
OutImage == volumes[parameterNode.OutputVolume].image

IsUniform(image, value) ==
    /\ image.numberOfComponents = 1
    /\ Len(image.voxels) > 0
    /\ ScalarRange(image) = <<Rat(value, 1), Rat(value, 1)>>

\* C3: after a successful SINGLE_COMPONENT run with index k every output voxel
\* is component k of the same input voxel, whatever the output held before; on
\* the test's volume the output range is [30,30] for k=0 and [50,50] for k=1
C3_SingleComponent ==
    SucceededRun("SINGLE_COMPONENT")
        => LET k == parameterNode.ComponentToExtract
           IN  /\ OutImage.numberOfComponents = 1
               /\ OutImage.scalarType = InImage.scalarType
               /\ Len(OutImage.voxels) = Len(InImage.voxels)
               /\ \A i \in 1..Len(InImage.voxels) :
                     OutImage.voxels[i] = <<InImage.voxels[i][k + 1]>>
               /\ (InImage = TestImage /\ k = 0) => IsUniform(OutImage, 30)
               /\ (InImage = TestImage /\ k = 1) => IsUniform(OutImage, 50)

C3_Witness ==
    /\ SucceededRun("SINGLE_COMPONENT")
    /\ InImage = TestImage
    /\ parameterNode.ComponentToExtract = 1
    /\ IsUniform(OutImage, 50)
    /\ IsUniform(lastCall.outputBefore.image, 30)

TruncDiv(a, b) == IF a >= 0 THEN a \div b ELSE -((-a) \div b)

\* 100 * (0.30*R + 0.59*G + 0.11*B) of a voxel of integers
Luminance100(voxel) == 30 * voxel[1].num + 59 * voxel[2].num + 11 * voxel[3].num

\* C4: after a successful LUMINANCE run every output voxel is
\* 0.30*R + 0.59*G + 0.11*B of the first three components of the same input
\* voxel, truncated when the scalar type is an integer type; further components
\* do not count; on the test's volume the output range is [49,49]
C4_Luminance ==
    SucceededRun("LUMINANCE")
        => /\ OutImage.numberOfComponents = 1
           /\ OutImage.scalarType = InImage.scalarType
           /\ Len(OutImage.voxels) = Len(InImage.voxels)
           /\ \A i \in 1..Len(InImage.voxels) :
                 /\ \A j \in 1..3 : InImage.voxels[i][j].den = 1
                 /\ OutImage.voxels[i] =
                       <<IF IsFloatingType(InImage.scalarType)
                         THEN Rat(Luminance100(InImage.voxels[i]), 100)
                         ELSE Rat(TruncDiv(Luminance100(InImage.voxels[i]), 100), 1)>>
           /\ InImage = TestImage => IsUniform(OutImage, 49)

C4_Witness ==
    /\ SucceededRun("LUMINANCE")
    /\ InImage.numberOfComponents = 4
    /\ InImage.scalarType = "uchar"
    /\ IsUniform(OutImage, 49)

RECURSIVE SumOf(_, _)
SumOf(voxel, k) == IF k = 0 THEN 0 ELSE SumOf(voxel, k - 1) + voxel[k].num

\* C5: after a successful AVERAGE run every output voxel is the mean of all the
\* components of the same input voxel, rounded to the nearest integer when the
\* scalar type is an integer type; the output has the input's scalar type; on
\* the test's volume the output range is [60,60]
C5_AverageIsRoundedMean ==
    SucceededRun("AVERAGE")
        => /\ OutImage.numberOfComponents = 1
           /\ OutImage.scalarType = InImage.scalarType
           /\ Len(OutImage.voxels) = Len(InImage.voxels)
           /\ \A i \in 1..Len(InImage.voxels) :
                 LET n == InImage.numberOfComponents
                     mean == Rat(SumOf(InImage.voxels[i], n), n)
                 IN  OutImage.voxels[i] =
                       <<IF IsFloatingType(InImage.scalarType)
                         THEN mean
                         ELSE Rat(Nearest(mean), 1)>>
           /\ InImage = TestImage => IsUniform(OutImage, 60)

\* the scene with the output volume node as new
WithNewOutput(vols, p) == [vols EXCEPT ![p.OutputVolume] = NewVolumeNode]

\* C6: a successful run executes exactly the pipeline of the selected method, and
\* leaves in the output volume what the same run leaves in a new output volume:
\* the result depends on the parameters and the input alone
C6_StatelessDispatch ==
    (lastCall.op = "run" /\ lastCall.outcome = "returned")
        => /\ lastCall.ran = <<parameterNode.ConversionMethod>>
           /\ volumes[parameterNode.OutputVolume] =
                 run(WithNewOutput(volumes, parameterNode),
                     parameterNode).vols[parameterNode.OutputVolume]

C6_Witness ==
    /\ lastCall.op = "run"
    /\ lastCall.outcome = "returned"
    /\ lastCall.outputBefore.image # NoImage
    /\ lastCall.outputBefore # volumes[parameterNode.OutputVolume]

\* C8: run(None) raises ValueError, message 'Invalid Parameter Node: None',
\* before any pipeline runs
C8_RunNoneRaisesValueError ==
    lastCall.op = "run(None)"
        => /\ lastCall.outcome = "ValueError"
           /\ lastCall.msg = Msg("Invalid Parameter Node: None")
           /\ lastCall.ran = <<>>

-----------------------------------------------------------------------------
(* Properties of the widget and of runWithVariables *)

\* C7: runWithVariables leaves a parameter node that already exists as it is,
\* ends as run ends on a parameter node holding the four values, and takes
\* componentToExtract as 0 when it is not given
C7_RunWithVariablesNewNode ==
    [][\A i \in InputVolumeChoices, o \in OutputVolumeChoices, m \in MethodChoices,
          c \in ComponentArguments :
            RunWithVariablesCall(i, o, m, c[1], c[2])
                => LET held == [exists |-> TRUE, InputVolume |-> i, OutputVolume |-> o,
                                ConversionMethod |-> m,
                                ComponentToExtract |-> IF c[1] THEN c[2] ELSE 0]
                       r == run(volumes, held)
                   IN  /\ parameterNode.exists => parameterNode' = parameterNode
                       /\ lastCall'.outcome = r.outcome
                       /\ lastCall'.msg = r.msg
                       /\ volumes' = r.vols]_vars

-----------------------------------------------------------------------------
(* Downloads *)

Repeat(char, n) == [i \in 1..n |-> char]

\* the checksum of a content under an algorithm, as '<algo>:<digest>'
ChecksumOf(algo, content) == Checksum(algo \o <<Colon>> \o HexDigest(algo, content))

\* the checksum arguments of the calls: none, the checksums of the contents,
\* a digest in capitals, and strings that are not '<algo>:<digest>'
ChecksumChoices ==
    {NoChecksum}
        \cup {ChecksumOf(algo, c) : algo \in {SHA256, SHA512, MD5}, c \in Contents}
        \cup {Checksum(MD5 \o <<Colon>> \o Repeat("A", 32)),
              Checksum(<<>>),
              Checksum(SHA256),
              Checksum(Repeat("a", 64)),
              Checksum(MD5 \o <<Colon>> \o Repeat("a", 32) \o <<Colon>>),
              Checksum(<<Colon>> \o SHA256 \o <<Colon>> \o Repeat("a", 64)),
              Checksum(<<"m", "d", "5", Colon>> \o Repeat("a", 32)),
              Checksum(<<"C", "R", "C", Colon>> \o Repeat("a", 32)),
              Checksum(SHA256 \o <<Colon>> \o Repeat("a", 32)),
              Checksum(SHA512 \o <<Colon>> \o Repeat("a", 64)),
              Checksum(MD5 \o <<Colon>> \o Repeat("a", 33)),
              Checksum(MD5 \o <<Colon>>)}

InitDownload ==
    /\ volumes = [n \in NodeIDs |-> NewVolumeNode]
    /\ parameterNode = NoParameterNode
    /\ lastCall = NoCall
    /\ WidgetIdle
    /\ testingEnabled = FALSE
    /\ targetFile \in {NoFile} \cup {File(c) : c \in Contents}
    /\ lastDownload = NoDownload
    /\ NoUtilCalls

\* slicer.util.downloadFile(url, targetFilePath, checksum, reDownloadIfChecksumInvalid)
DownloadFile ==
    /\ \E checksum \in ChecksumChoices, reDownload \in BOOLEAN, response \in Responses :
          LET d == downloadFile(targetFile, response, checksum, reDownload)
          IN  /\ targetFile' = d.file
              /\ lastDownload' = [op |-> "downloadFile", checksum |-> checksum,
                                  fileBefore |-> targetFile, returned |-> d.returned,
                                  fetched |-> d.fetched, removed |-> d.removed,
                                  read |-> d.read]
    /\ UNCHANGED <<volumes, parameterNode, lastCall, widgetVars, utilVars>>

\* something else removes or rewrites the file between two calls
FileChanges ==
    /\ targetFile' \in ({NoFile} \cup {File(c) : c \in Contents}) \ {targetFile}
    /\ lastDownload' = NoDownload
    /\ UNCHANGED <<volumes, parameterNode, lastCall, widgetVars, utilVars>>

NextDownload ==
    \/ DownloadFile
    \/ FileChanges

SpecDownload == InitDownload /\ [][NextDownload]_vars

\* number of colons in a string
Colons(chars) == Cardinality({i \in 1..Len(chars) : chars[i] = Colon})

\* the string is '<algo>:<digest>' with a known algo and a digest of its length
WellFormed(chars) ==
    \E algo \in {SHA256, SHA512, MD5} :
        /\ Len(chars) = Len(algo) + 1 + DigestLength(algo)
        /\ SubSeq(chars, 1, Len(algo)) = algo
        /\ chars[Len(algo) + 1] = Colon
        /\ Colons(chars) = 1

\* the algorithm and the digest a well-formed string names
AlgoOf(chars) == CHOOSE algo \in {SHA256, SHA512, MD5} : SubSeq(chars, 1, Len(algo)) = algo
DigestOf(chars) == SubSeq(chars, Len(AlgoOf(chars)) + 2, Len(chars))

\* C10: with a checksum, downloadFile returns True only if the file exists at
\* return and its digest under the given algorithm is the given digest; with a
\* malformed checksum it returns False and neither fetches, removes nor reads
\* a file
C10_DownloadVerified ==
    (lastDownload.op = "downloadFile" /\ ~lastDownload.checksum.isNone)
        => LET chars == lastDownload.checksum.chars
           IN  /\ lastDownload.returned
                     => /\ targetFile.exists
                        /\ WellFormed(chars)
                        /\ HexDigest(AlgoOf(chars), targetFile.content) = DigestOf(chars)
               /\ ~WellFormed(chars)
                     => /\ ~lastDownload.returned
                        /\ lastDownload.fetched = 0
                        /\ lastDownload.removed = 0
                        /\ lastDownload.read = 0
                        /\ targetFile = lastDownload.fileBefore

\* a file with another digest was found, removed and downloaded again, and the
\* download has the digest asked for
C10_Witness ==
    /\ lastDownload.op = "downloadFile"
    /\ ~lastDownload.checksum.isNone
    /\ lastDownload.returned
    /\ lastDownload.removed = 1
    /\ lastDownload.fetched = 1
    /\ lastDownload.fileBefore.exists
    /\ targetFile # lastDownload.fileBefore

-----------------------------------------------------------------------------
(* downloadAndExtractArchive *)

\* the checksum arguments of the calls: none, a well-formed one, a malformed one
ArchiveChecksums == {NoChecksum, ChecksumOf(SHA256, "a"), Checksum(SHA256)}

ExpectedChoices == {NoExpectation} \cup {Expect(n) : n \in 0..MaxFiles}

\* what applicationLogic().Unzip can do
Unzips == [ok : BOOLEAN, added : 0..MaxFiles, made : BOOLEAN]

Dirs == {NoDir} \cup {Dir(n) : n \in 0..MaxFiles}

InitArchive ==
    /\ volumes = [n \in NodeIDs |-> NewVolumeNode]
    /\ parameterNode = NoParameterNode
    /\ lastCall = NoCall
    /\ WidgetIdle
    /\ testingEnabled = FALSE
    /\ targetFile \in {NoFile} \cup {File(c) : c \in Contents}
    /\ lastDownload = NoDownload
    /\ outputDir \in Dirs
    /\ archiveCall = NoArchiveCall
    /\ NoPureCalls
    /\ mrmlScene = <<>>
    /\ lastGetNode = NoGetNode
    /\ defaultProperties = NoFileFormat
    /\ lastExport = NoExport

ArchiveFrame ==
    UNCHANGED <<volumes, parameterNode, lastCall, widgetVars, pureVars, sceneVars, exportVars>>

\* a failed attempt: numberOfTrials -= 1; _cleanup(); continue
FailedAttempt(file, dir) ==
    LET c == cleanup(file, dir)
    IN  /\ targetFile' = c.file
        /\ outputDir' = c.dir
        /\ archiveCall' =
              IF c.raised
              THEN [archiveCall EXCEPT !.pc = "done", !.outcome = "FileNotFoundError",
                                       !.numberOfTrials = @ - 1, !.attempts = @ + 1]
              ELSE [archiveCall EXCEPT !.pc = "loop", !.numberOfTrials = @ - 1,
                                       !.attempts = @ + 1]

\* downloadAndExtractArchive(url, archiveFilePath, outputDir,
\* expectedNumberOfExtractedFiles, numberOfTrials, checksum) is called
DownloadAndExtractArchive ==
    /\ archiveCall.pc \in {"idle", "done"}
    /\ \E trials \in 0..MaxTrials, checksum \in ArchiveChecksums,
          extension \in Extensions, expected \in ExpectedChoices :
          archiveCall' = [pc |-> "loop", numberOfTrials |-> trials,
                          maxNumberOfTrials |-> trials, checksum |-> checksum,
                          extension |-> extension, expected |-> expected,
                          outcome |-> "none", attempts |-> 0]
    /\ UNCHANGED <<targetFile, lastDownload, outputDir>>
    /\ ArchiveFrame

\* while numberOfTrials: if not downloadFile(url, archiveFilePath, checksum)
ArchiveDownloadWith(response) ==
    /\ archiveCall.pc = "loop"
    /\ archiveCall.numberOfTrials # 0
    /\    LET d == downloadFile(targetFile, response, archiveCall.checksum, TRUE)
          IN  /\ lastDownload' = [op |-> "downloadFile",
                                  checksum |-> archiveCall.checksum,
                                  fileBefore |-> targetFile, returned |-> d.returned,
                                  fetched |-> d.fetched, removed |-> d.removed,
                                  read |-> d.read]
              /\ IF d.returned
                 THEN /\ targetFile' = d.file
                      /\ archiveCall' = [archiveCall EXCEPT !.pc = "extract"]
                      /\ UNCHANGED outputDir
                 ELSE FailedAttempt(d.file, outputDir)
    /\ ArchiveFrame

ArchiveDownload == \E response \in Responses : ArchiveDownloadWith(response)

\* if not extractArchive(archiveFilePath, outputDir, expectedNumberOfExtractedFiles);
\* return True
ArchiveExtractWith(unzip) ==
    /\ archiveCall.pc = "extract"
    /\    LET e == extractArchive(targetFile, outputDir, archiveCall.extension,
                                  archiveCall.expected, unzip)
          IN  IF e.returned
              THEN /\ outputDir' = e.dir
                   /\ archiveCall' = [archiveCall EXCEPT !.pc = "done", !.outcome = "True",
                                                         !.attempts = @ + 1]
                   /\ UNCHANGED targetFile
              ELSE FailedAttempt(targetFile, e.dir)
    /\ UNCHANGED lastDownload
    /\ ArchiveFrame

ArchiveExtract == \E unzip \in Unzips : ArchiveExtractWith(unzip)

\* the loop is left with numberOfTrials = 0: _cleanup(); return False
ArchiveGiveUp ==
    /\ archiveCall.pc = "loop"
    /\ archiveCall.numberOfTrials = 0
    /\ LET c == cleanup(targetFile, outputDir)
       IN  /\ targetFile' = c.file
           /\ outputDir' = c.dir
           /\ archiveCall' = [archiveCall EXCEPT
                                 !.pc = "done",
                                 !.outcome = IF c.raised THEN "FileNotFoundError"
                                             ELSE "False"]
    /\ UNCHANGED lastDownload
    /\ ArchiveFrame

NextArchive ==
    \/ DownloadAndExtractArchive
    \/ ArchiveDownload
    \/ ArchiveExtract
    \/ ArchiveGiveUp

SpecArchive == InitArchive /\ [][NextArchive]_vars

\* the archive is removed, the output folder is empty and the loop goes on
RetriesAfterCleanup ==
    /\ ~targetFile'.exists
    /\ outputDir' = Dir(0)
    /\ archiveCall'.pc = "loop"
    /\ archiveCall'.outcome = "none"
    /\ archiveCall'.numberOfTrials = archiveCall.numberOfTrials - 1

\* C11: an attempt whose download or extraction fails removes the archive,
\* empties the output folder and goes back to the loop, which makes at most
\* numberOfTrials attempts; the first attempt whose download and extraction both
\* succeed returns True and ends the call
C11_RetriesUntilExtracted ==
    [][/\ \A response \in Responses :
             ArchiveDownloadWith(response)
                 => IF downloadFile(targetFile, response, archiveCall.checksum, TRUE).returned
                    THEN archiveCall'.pc = "extract"
                    ELSE RetriesAfterCleanup
       /\ \A unzip \in Unzips :
             ArchiveExtractWith(unzip)
                 => IF extractArchive(targetFile, outputDir, archiveCall.extension,
                                      archiveCall.expected, unzip).returned
                    THEN archiveCall'.pc = "done" /\ archiveCall'.outcome = "True"
                    ELSE RetriesAfterCleanup
       /\ archiveCall'.attempts <= archiveCall'.maxNumberOfTrials]_vars

\* C12: a call all of whose numberOfTrials attempts failed has returned False,
\* the archive is removed and the output folder exists and is empty
C12_AllFailedReturnsFalse ==
    (/\ archiveCall.pc = "done"
     /\ archiveCall.outcome # "True"
     /\ archiveCall.attempts = archiveCall.maxNumberOfTrials)
        => /\ archiveCall.outcome = "False"
           /\ ~targetFile.exists
           /\ outputDir = Dir(0)

-----------------------------------------------------------------------------
(* extractAlgoAndDigest *)

\* what stands before the first colon, the colons, the digest characters, the
\* digest lengths and what follows the digest in the strings of the calls
AlgoChoices == {SHA256, SHA512, MD5, <<"m", "d", "5">>, <<"C", "R", "C">>, <<>>}
SeparatorChoices == {<<>>, <<Colon>>, <<Colon, Colon>>}
DigestCharChoices == {"a", "A", "0"}
DigestLengthChoices == {0, 31, 32, 33, 63, 64, 65, 127, 128, 129}
TrailerChoices == {<<>>, <<Colon>>}

ExtractInputs ==
    {NoChecksum}
        \cup {Checksum(algo \o separator \o Repeat(char, n) \o trailer) :
                 algo \in AlgoChoices, separator \in SeparatorChoices,
                 char \in DigestCharChoices, n \in DigestLengthChoices,
                 trailer \in TrailerChoices}

InitExtract ==
    /\ volumes = [n \in NodeIDs |-> NewVolumeNode]
    /\ parameterNode = NoParameterNode
    /\ lastCall = NoCall
    /\ WidgetIdle
    /\ testingEnabled = FALSE
    /\ NoFiles
    /\ NoUtilCalls

\* slicer.util.extractAlgoAndDigest(checksum)
ExtractAlgoAndDigest ==
    /\ \E checksum \in ExtractInputs :
          LET e == extractAlgoAndDigest(checksum)
          IN  lastExtract' = [op |-> "extractAlgoAndDigest", checksum |-> checksum,
                              raised |-> e.raised, algo |-> e.algo, digest |-> e.digest]
    /\ UNCHANGED <<volumes, parameterNode, lastCall, widgetVars, fileVars, outputDir,
                   archiveCall, lastToBool, sceneVars, exportVars>>

NextExtract == ExtractAlgoAndDigest

SpecExtract == InitExtract /\ [][NextExtract]_vars

\* C13: extractAlgoAndDigest gives (None, None) for None; for a string with
\* exactly one colon, a known algo before it and a digest of that algo's length
\* after it, it gives the algo and the digest, which joined by a colon are the
\* string; for every other string it raises ValueError
C13_ExtractAlgoAndDigest ==
    lastExtract.op = "extractAlgoAndDigest"
        => LET chars == lastExtract.checksum.chars
           IN  IF lastExtract.checksum.isNone
               THEN ~lastExtract.raised /\ lastExtract.algo = <<>>
                       /\ lastExtract.digest = <<>>
               ELSE IF WellFormed(chars)
               THEN /\ ~lastExtract.raised
                    /\ lastExtract.algo \in {SHA256, SHA512, MD5}
                    /\ Len(lastExtract.digest) = DigestLength(lastExtract.algo)
                    /\ lastExtract.algo \o <<Colon>> \o lastExtract.digest = chars
               ELSE lastExtract.raised

\* a SHA512 checksum was taken apart
C13_Witness ==
    /\ lastExtract.op = "extractAlgoAndDigest"
    /\ ~lastExtract.raised
    /\ lastExtract.algo = SHA512
    /\ Len(lastExtract.digest) = 128

-----------------------------------------------------------------------------
(* toBool *)

\* strings that write numbers, with signs and blanks around them
NumberStrings ==
    {left \o sign \o digits \o right :
        left \in {<<>>, <<" ">>}, sign \in {<<>>, <<"-">>, <<"+">>},
        digits \in {<<a>> : a \in {"0", "1", "2"}}
                      \cup {<<a, b>> : a \in {"0", "1", "2"}, b \in {"0", "1", "2"}},
        right \in {<<>>, <<" ">>}}

\* 'true' and 'false' in every mix of capitals and small letters
TrueStrings ==
    {<<t, r, u, e>> : t \in {"t", "T"}, r \in {"r", "R"}, u \in {"u", "U"},
                      e \in {"e", "E"}}
FalseStrings ==
    {<<f, a, l>> \o se : f \in {"f", "F"}, a \in {"a", "A"}, l \in {"l", "L"},
                         se \in {<<"s", "e">>, <<"S", "e">>, <<"s", "E">>, <<"S", "E">>}}

OtherStrings ==
    {<<>>, <<" ">>, <<"-">>, <<"1", ".", "5">>, <<"H", "e", "l", "l", "o">>,
     <<"t", "r", "u", "e", " ">>, <<" ", "T", "R", "U", "E">>, <<"1", " ", "1">>,
     <<"-", "-", "1">>}

ToBoolInputs ==
    {PyInt(n) : n \in (0 - MaxInt)..MaxInt}
        \cup {PyBool(b) : b \in BOOLEAN}
        \cup {PyFloat(h) : h \in (0 - 2 * MaxInt)..(2 * MaxInt)}
        \cup {PyNan, PyInf, PyMinusInf, PyNone, PyObject, PyList(0), PyList(1)}
        \cup {PyStr(chars) : chars \in NumberStrings \cup TrueStrings \cup FalseStrings
                                          \cup OtherStrings}

InitToBool ==
    /\ volumes = [n \in NodeIDs |-> NewVolumeNode]
    /\ parameterNode = NoParameterNode
    /\ lastCall = NoCall
    /\ WidgetIdle
    /\ testingEnabled = FALSE
    /\ NoFiles
    /\ NoUtilCalls

\* slicer.util.toBool(value)
ToBool ==
    /\ \E value \in ToBoolInputs :
          LET b == toBool(value)
          IN  lastToBool' = [op |-> "toBool", value |-> value, raised |-> b.raised,
                             result |-> b.result]
    /\ UNCHANGED <<volumes, parameterNode, lastCall, widgetVars, fileVars, outputDir,
                   archiveCall, lastExtract, sceneVars, exportVars>>

NextToBool == ToBool

SpecToBool == InitToBool /\ [][NextToBool]_vars

\* the values of the doctests of toBool and what they give
Doctests ==
    {<<PyInt(-2), TRUE>>, <<PyInt(-1), TRUE>>, <<PyInt(0), FALSE>>, <<PyInt(1), TRUE>>,
     <<PyStr(<<"-", "2">>), TRUE>>, <<PyStr(<<"-", "1">>), TRUE>>,
     <<PyStr(<<"0">>), FALSE>>, <<PyStr(<<"1">>), TRUE>>, <<PyStr(<<"2">>), TRUE>>,
     <<PyStr(<<"H", "e", "l", "l", "o">>), FALSE>>,
     <<PyStr(<<"t", "r", "u", "e">>), TRUE>>,
     <<PyStr(<<"f", "a", "l", "s", "e">>), FALSE>>,
     <<PyStr(<<"T", "r", "u", "e">>), TRUE>>,
     <<PyStr(<<"F", "a", "l", "s", "e">>), FALSE>>,
     <<PyStr(<<"t", "R", "u", "e">>), TRUE>>,
     <<PyStr(<<"f", "A", "l", "s", "e">>), FALSE>>,
     <<PyObject, TRUE>>, <<PyNone, FALSE>>}

\* what the three rules of toBool give for a value
ToBoolRule(value) ==
    IF int(value).raised = "none" THEN int(value).n # 0
    ELSE IF value.type = "str" THEN lower(value.chars) = <<"t", "r", "u", "e">>
    ELSE bool(value)

\* C14: toBool(v) is bool(int(v)) when v converts to an integer, else for a
\* string whether it is 'true' whatever the case of its letters, else bool(v);
\* the values of the doctests give what the doctests say
C14_ToBool ==
    lastToBool.op = "toBool"
        => /\ lastToBool.raised = "none"
           /\ lastToBool.result = ToBoolRule(lastToBool.value)
           /\ \A doctest \in Doctests :
                 lastToBool.value = doctest[1] => lastToBool.result = doctest[2]

-----------------------------------------------------------------------------
(* getNode *)

\* names the nodes are given, and the ID the scene gives its count-th node
NodeNames == {<<"C", "T">>, <<"C", "T", "_", "1">>, <<"M", "R">>}
NodeIDAt(count) == <<"n", Digits[count + 1]>>

PatternChoices ==
    {<<"*">>, <<"C", "T">>, <<"C", "T", "*">>, <<"M", "R">>, <<"?", "?">>, <<"n", "*">>,
     <<"n", "2">>, <<"*", "1">>, <<"X">>}

InitScene ==
    /\ volumes = [n \in NodeIDs |-> NewVolumeNode]
    /\ parameterNode = NoParameterNode
    /\ lastCall = NoCall
    /\ WidgetIdle
    /\ testingEnabled = FALSE
    /\ NoFiles
    /\ NoUtilCalls

SceneFrame ==
    UNCHANGED <<volumes, parameterNode, lastCall, widgetVars, fileVars, outputDir,
                archiveCall, pureVars, exportVars>>

\* a node with a name is added to the scene
AddNode ==
    /\ Len(mrmlScene) < MaxNodes
    /\ \E name \in NodeNames :
          mrmlScene' = Append(mrmlScene, [name |-> name, id |-> NodeIDAt(Len(mrmlScene) + 1)])
    /\ lastGetNode' = NoGetNode
    /\ SceneFrame

\* slicer.util.getNode(pattern, index)
GetNode ==
    /\ \E pattern \in PatternChoices, index \in 0..(MaxNodes - 1) :
          LET g == getNode(pattern, index, mrmlScene)
          IN  lastGetNode' = [op |-> "getNode", pattern |-> pattern, index |-> index,
                              raised |-> g.raised, node |-> g.node]
    /\ UNCHANGED mrmlScene
    /\ SceneFrame

NextScene ==
    \/ AddNode
    \/ GetNode

SpecScene == InitScene /\ [][NextScene]_vars

\* the nodes of the scene whose name or ID matches the pattern, in scene order
Matching(pattern) ==
    SelectSeq(mrmlScene,
              LAMBDA node : fnmatchcase(node.name, pattern) \/ fnmatchcase(node.id, pattern))

\* C15: getNode(pattern, index) is the index-th of the nodes of the scene
\* whose name or ID matches the pattern, so the first of them for the default
\* index; it raises MRMLNodeNotFoundException when no node matches
C15_GetNodeIndexth ==
    lastGetNode.op = "getNode"
        => LET matching == Matching(lastGetNode.pattern)
           IN  IF matching = <<>>
               THEN lastGetNode.raised = "MRMLNodeNotFoundException"
               ELSE lastGetNode.index < Len(matching)
                       => /\ lastGetNode.raised = "none"
                          /\ lastGetNode.node = matching[lastGetNode.index + 1]

-----------------------------------------------------------------------------
(* exportNode *)

\* the known extension of the file name of a call; "" when it has none
ExtensionChoices == {".nrrd", ".nhdr", ".nii", ""}

\* the 'fileFormat' entry of the dictionary a caller passes: missing, or a format
GivenChoices ==
    {NoFileFormat} \cup {fileWriterExtensions[i] : i \in 1..Len(fileWriterExtensions)}

InitExport ==
    /\ volumes = [n \in NodeIDs |-> NewVolumeNode]
    /\ parameterNode = NoParameterNode
    /\ lastCall = NoCall
    /\ WidgetIdle
    /\ testingEnabled = FALSE
    /\ NoFiles
    /\ NoUtilCalls

ExportFrame ==
    UNCHANGED <<volumes, parameterNode, lastCall, widgetVars, fileVars, outputDir,
                archiveCall, pureVars, sceneVars>>

\* slicer.util.exportNode(node, filename, world=world): properties is the default
ExportNodeDefault ==
    /\ \E extension \in ExtensionChoices, world \in BOOLEAN, success \in BOOLEAN :
          LET e == exportNode(extension, defaultProperties, success)
          IN  /\ defaultProperties' = e.properties
              /\ lastExport' = [op |-> "exportNode", extension |-> extension,
                                properties |-> "default", given |-> NoFileFormat,
                                world |-> world, raised |-> e.raised,
                                fileFormat |-> e.fileFormat, returned |-> e.returned]
    /\ ExportFrame

\* slicer.util.exportNode(node, filename, properties, world): properties is a
\* dictionary of the caller
ExportNodeWith ==
    /\ \E extension \in ExtensionChoices, given \in GivenChoices, world \in BOOLEAN,
          success \in BOOLEAN :
          LET e == exportNode(extension, given, success)
          IN  lastExport' = [op |-> "exportNode", extension |-> extension,
                             properties |-> "passed", given |-> given,
                             world |-> world, raised |-> e.raised,
                             fileFormat |-> e.fileFormat, returned |-> e.returned]
    /\ UNCHANGED defaultProperties
    /\ ExportFrame

NextExport ==
    \/ ExportNodeDefault
    \/ ExportNodeWith

SpecExport == InitExport /\ [][NextExport]_vars

\* the writer formats that name the extension
FormatsOf(extension) ==
    {i \in 1..Len(fileWriterExtensions) :
        GetFileExtensionFromFormatString(fileWriterExtensions[i]) = extension}

\* C16: a call of exportNode without a 'fileFormat' entry uses the first writer
\* format that names the extension of its file name and raises ValueError when
\* there is none, whatever the calls before it were
C16_ExportFormatFromExtension ==
    (lastExport.op = "exportNode" /\ lastExport.given = NoFileFormat)
        => IF FormatsOf(lastExport.extension) = {}
           THEN lastExport.raised = "ValueError"
           ELSE /\ lastExport.raised = "none"
                /\ \E i \in FormatsOf(lastExport.extension) :
                      /\ lastExport.fileFormat = fileWriterExtensions[i]
                      /\ \A j \in FormatsOf(lastExport.extension) : i <= j

-----------------------------------------------------------------------------
(* What a run leaves alone *)

\* every volume node but the output of the run is as it was, the parameter
\* node aside
OnlyOutputModified(outputVolumeNode) ==
    /\ \A n \in NodeIDs \ {outputVolumeNode} : volumes'[n] = volumes[n]
    /\ UNCHANGED <<widgetVars, fileVars, utilVars>>

\* C17: a run that succeeds leaves the input volume node as it was, image data
\* and IJK-to-RAS matrix, gives the output volume the IJK-to-RAS matrix of the
\* input, and changes nothing else but the output volume node
C17_RunFrame ==
    [][(Run /\ lastCall'.outcome = "returned")
          => /\ volumes'[parameterNode.InputVolume] = volumes[parameterNode.InputVolume]
             /\ volumes'[parameterNode.OutputVolume].ijkToRAS
                   = volumes[parameterNode.InputVolume].ijkToRAS
             /\ OnlyOutputModified(parameterNode.OutputVolume)
             /\ parameterNode' = parameterNode]_vars

\* a run has given the output volume a matrix it did not have
C17_Witness ==
    /\ lastCall.op = "run"
    /\ lastCall.outcome = "returned"
    /\ lastCall.outputBefore.ijkToRAS # volumes[parameterNode.InputVolume].ijkToRAS
    /\ volumes[parameterNode.OutputVolume].ijkToRAS
          = volumes[parameterNode.InputVolume].ijkToRAS
    /\ volumes[parameterNode.InputVolume].image # NoImage

\* the same for runWithVariables, which may write the parameter values
C17_RunWithVariablesFrame ==
    [][\A i \in InputVolumeChoices, o \in OutputVolumeChoices, m \in MethodChoices,
          c \in ComponentArguments :
            (RunWithVariablesCall(i, o, m, c[1], c[2]) /\ lastCall'.outcome = "returned")
                => /\ volumes'[i] = volumes[i]
                   /\ volumes'[o].ijkToRAS = volumes[i].ijkToRAS
                   /\ \A n \in NodeIDs \ {o} : volumes'[n] = volumes[n]
                   /\ UNCHANGED <<widgetVars, fileVars, utilVars>>]_vars

====
